---- MODULE Spec2Model ----
(***************************************************************************)
(* Model of the request handlers of core/views.py (py-company-task-manager) *)
(* over the relational store they read and write: the Task table with its   *)
(* assignees relation, and the Worker table.                                *)
(***************************************************************************)
EXTENDS Integers, Sequences, FiniteSets, TLC

(* ------------------------------ bounds --------------------------------- *)
NumTasks == 1
NumListed == 2
NumWorkers == 3
MaxDay == 1

TaskIds == 1..NumTasks
\* a request may name any primary key, also one no row ever had
RequestPks == 1..(NumTasks + 1)
WorkerIds == 1..NumWorkers
\* two tenants: the requester's own project and another one
ProjectIds == {1, 2}
NumProjects == Cardinality(ProjectIds)
Days == 0..MaxDay

\* request.user of a request without a session (AnonymousUser, pk None)
Anonymous == 0
Users == {Anonymous} \cup WorkerIds
\* the two request threads the web server runs side by side
Handlers == {"h1", "h2"}
\* who sends the task requests: nobody logged in, worker 1 (project 1, assigned
\* to task 1) and worker 2 (project 2)
Requesters == {Anonymous, 1, 2}

Priorities == {"Urgent", "High", "Low"}

(* ------------------------------ names ---------------------------------- *)
\* a name is a sequence of letters
Ana == <<"A", "n", "a">>
Smith == <<"S", "m", "i", "t", "h">>
Juliana == <<"J", "u", "l", "i", "a", "n", "a">>
Ruiz == <<"R", "u", "i", "z">>
Bob == <<"B", "o", "b">>
Lee == <<"L", "e", "e">>
Dan == <<"D", "a", "n">>
Ash == <<"A", "s", "h">>
ANNA == <<"A", "N", "N", "A">>
Havana == <<"H", "a", "v", "A", "N", "A">>

LowerChars == <<"a", "b", "d", "e", "h", "i", "j", "l", "m", "n", "o", "r", "s", "t", "u", "v", "z">>
UpperChars == <<"A", "B", "D", "E", "H", "I", "J", "L", "M", "N", "O", "R", "S", "T", "U", "V", "Z">>

VARIABLES
    tasks,      \* the Task table: primary key -> row, with the row's assignees
    workers,    \* the Worker table: primary key -> row
    today,      \* date.today(), as a day number
    req,        \* the request threads inside toggle_completed
    resp,       \* the last answer of a task view
    listing,    \* the last answer of the task list
    wresp       \* the last answer of a worker view

vars == <<tasks, workers, today, req, resp, listing, wresp>>

(* ------------------------------ store ---------------------------------- *)
\* the row of primary key pk as a set: empty when there is no such row
Row(store, pk) == IF pk \in DOMAIN store THEN {store[pk]} ELSE {}

WorkerProject(w) == ((w - 1) % NumProjects) + 1

TaskProject(t) == ((t - 1) % NumProjects) + 1

InitTasks ==
    [t \in TaskIds |->
        [project |-> TaskProject(t),
         is_completed |-> (t % 2 = 0),
         priority |-> IF t % 2 = 1 THEN "Urgent" ELSE "Low",
         deadline |-> 0,
         assignees |-> {w \in WorkerIds : w = t \/ w = t + NumProjects}]]

NoLocation == [name |-> "", arg |-> 0]

Reverse(name, arg) == [name |-> name, arg |-> arg]

IsAuthenticated(user) == user # Anonymous

\* request.user.project
UserProject(user) == workers[user].project

(* --------------------------- toggle_completed --------------------------- *)
\* a request thread: where it stands in toggle_completed, its request, the
\* instance it holds (task) and, as history, the row as it was loaded (read)
Idle == [pc |-> "idle", user |-> Anonymous, pk |-> 0, task |-> {}, read |-> {}]

Flags(rows) == {t.is_completed : t \in rows}

\* the answer to a request; read, before and after are history: the flag the
\* request had loaded, and the flag of its row as the answering step found
\* and left it (each empty when there is no row)
Response(op, method, user, pk, status, body, location, r, after) ==
    [op |-> op, method |-> method, user |-> user, pk |-> pk, status |-> status,
     body |-> body, location |-> location, read |-> Flags(r.read),
     before |-> Flags(Row(tasks, pk)), after |-> Flags(after)]

NoResponse ==
    Response("none", "GET", Anonymous, 0, 0, "", NoLocation, Idle, {})

\* HttpResponse("Unauthorized", status=405)
Unauthorized(op, method, user, pk, r, after) ==
    Response(op, method, user, pk, 405, "Unauthorized", NoLocation, r, after)

\* the lookup answered with a plain not-found page
LookupNotFound(user, pk, after) ==
    Response("toggle", "POST", user, pk, 404, "Not Found", NoLocation, Idle, after)

\* Task.objects.get(pk=pk) raises DoesNotExist and nothing catches it
LookupError(user, pk, after) ==
    Response("toggle", "POST", user, pk, 500, "DoesNotExist", NoLocation, Idle, after)

\* task.assignees.all(): the rows of the relation for this task, read now
AssigneesAll(store, pk) == IF pk \in DOMAIN store THEN store[pk].assignees ELSE {}

\* the toggle open to every logged-in worker
ToggleAuthorizedLoggedIn(user, members) == IsAuthenticated(user)

\* request.user in task.assignees.all()
ToggleAuthorized(user, members) == user \in members

\* the flag set rather than flipped
FlipCompletedMarkDone(task) == [task EXCEPT !.is_completed = TRUE]

\* task.is_completed = not task.is_completed, on the loaded instance
FlipCompleted(task) == [task EXCEPT !.is_completed = ~ @]

\* the flip done in the store, on the flag the row holds when it is written
SaveTaskFlipInStore(store, pk, task) ==
    [p \in DOMAIN store \cup {pk} |->
        IF p = pk
        THEN [task EXCEPT !.assignees = AssigneesAll(store, pk),
                          !.is_completed = IF pk \in DOMAIN store
                                           THEN ~ store[pk].is_completed ELSE @]
        ELSE store[p]]

\* task.save(): every column of the row is written from the instance (UPDATE,
\* or INSERT when the row is gone); the assignees relation is not written
SaveTask(store, pk, task) ==
    [p \in DOMAIN store \cup {pk} |->
        IF p = pk
        THEN [task EXCEPT !.assignees = AssigneesAll(store, pk)]
        ELSE store[p]]

\* Task.objects.get(pk=pk)
ToggleGet(h, user, pk) ==
    /\ req[h].pc = "idle"
    /\ IF pk \in DOMAIN tasks
       THEN /\ req' = [req EXCEPT ![h] =
                         [pc |-> "check", user |-> user, pk |-> pk,
                          task |-> {tasks[pk]}, read |-> {tasks[pk]}]]
            /\ UNCHANGED resp
       ELSE /\ resp' = LookupError(user, pk, Row(tasks, pk))
            /\ UNCHANGED req
    /\ UNCHANGED <<tasks, workers, today, listing, wresp>>

\* the membership test and, for an assignee, the flip of the loaded instance
ToggleCheck(h) ==
    /\ req[h].pc = "check"
    /\ LET r == req[h]
       IN IF ToggleAuthorized(r.user, AssigneesAll(tasks, r.pk))
          THEN /\ req' = [req EXCEPT ![h] =
                            [r EXCEPT !.pc = "save",
                                      !.task = {FlipCompleted(t) : t \in r.task}]]
               /\ UNCHANGED resp
          ELSE /\ resp' = Unauthorized("toggle", "POST", r.user, r.pk, r,
                                       Row(tasks, r.pk))
               /\ req' = [req EXCEPT ![h] = Idle]
    /\ UNCHANGED <<tasks, workers, today, listing, wresp>>

\* task.save() and the redirect to the detail page
ToggleSave(h) ==
    /\ req[h].pc = "save"
    /\ LET r == req[h]
           t == CHOOSE x \in r.task : TRUE
       IN /\ tasks' = SaveTask(tasks, r.pk, t)
          /\ resp' = Response("toggle", "POST", r.user, r.pk, 302, "",
                              Reverse("core:task-detail", r.pk), r,
                              Row(tasks', r.pk))
          /\ req' = [req EXCEPT ![h] = Idle]
    /\ UNCHANGED <<workers, today, listing, wresp>>

(* ------------------- TaskUpdateView / TaskDeleteView -------------------- *)
\* LoginRequiredMixin: a request without a session is sent to the login page
LoginRedirect(op, method, user, pk, after) ==
    Response(op, method, user, pk, 302, "", Reverse("login", 0), Idle, after)

\* obj.project != self.request.user.project, negated
ProjectMatches(obj, user) == obj.project = UserProject(user)

\* what a submitted TaskForm carries
FormData == [priority : Priorities, deadline : Days, assignees : SUBSET WorkerIds]

\* the submissions tried
FormInputs ==
    {d \in FormData :
        \/ d.priority = "Urgent" /\ d.deadline = 0 /\ d.assignees = {1}
        \/ d.priority = "Low" /\ d.deadline = MaxDay /\ d.assignees = {1, 2}
        \/ d.priority = "High" /\ d.deadline = MaxDay /\ d.assignees = {}
        \/ d.priority = "Urgent" /\ d.deadline = MaxDay /\ d.assignees = {2}}

\* form.save() of a valid TaskForm bound to the loaded task
FormSave(obj, data) ==
    [obj EXCEPT !.priority = data.priority, !.deadline = data.deadline,
                !.assignees = data.assignees]

\* TaskUpdateView.get: the project check, then the form page
TaskUpdateGet(user, pk) ==
    /\ resp' =
         IF ~ IsAuthenticated(user)
         THEN LoginRedirect("task_update", "GET", user, pk, Row(tasks, pk))
         ELSE IF pk \notin DOMAIN tasks
         THEN Response("task_update", "GET", user, pk, 404, "", NoLocation, Idle, {})
         ELSE IF ~ ProjectMatches(tasks[pk], user)
         THEN Unauthorized("task_update", "GET", user, pk, Idle, Row(tasks, pk))
         ELSE Response("task_update", "GET", user, pk, 200, "", NoLocation, Idle,
                       Row(tasks, pk))
    /\ UNCHANGED <<tasks, workers, today, req, listing, wresp>>

\* the inherited post: get_object, the form, form.save(), get_success_url
TaskUpdatePost(user, pk, data, valid) ==
    /\ IF ~ IsAuthenticated(user)
       THEN /\ resp' = LoginRedirect("task_update", "POST", user, pk, Row(tasks, pk))
            /\ UNCHANGED <<tasks, req>>
       ELSE IF pk \notin DOMAIN tasks
       THEN /\ resp' = Response("task_update", "POST", user, pk, 404, "",
                                NoLocation, Idle, {})
            /\ UNCHANGED <<tasks, req>>
       ELSE IF ~ valid
       THEN /\ resp' = Response("task_update", "POST", user, pk, 200, "",
                                NoLocation, Idle, Row(tasks, pk))
            /\ UNCHANGED <<tasks, req>>
       ELSE /\ tasks' = [tasks EXCEPT ![pk] = FormSave(tasks[pk], data)]
            /\ resp' = Response("task_update", "POST", user, pk, 302, "",
                                Reverse("core:task-list", tasks'[pk].project), Idle,
                                Row(tasks', pk))
            /\ UNCHANGED req
    /\ UNCHANGED <<workers, today, listing, wresp>>

\* TaskDeleteView.get: the project check, then the confirmation page
TaskDeleteGet(user, pk) ==
    /\ resp' =
         IF ~ IsAuthenticated(user)
         THEN LoginRedirect("task_delete", "GET", user, pk, Row(tasks, pk))
         ELSE IF pk \notin DOMAIN tasks
         THEN Response("task_delete", "GET", user, pk, 404, "", NoLocation, Idle, {})
         ELSE IF ~ ProjectMatches(tasks[pk], user)
         THEN Unauthorized("task_delete", "GET", user, pk, Idle, Row(tasks, pk))
         ELSE Response("task_delete", "GET", user, pk, 200, "", NoLocation, Idle,
                       Row(tasks, pk))
    /\ UNCHANGED <<tasks, workers, today, req, listing, wresp>>

\* the inherited post: get_object, get_success_url, object.delete()
TaskDeletePost(user, pk) ==
    /\ IF ~ IsAuthenticated(user)
       THEN /\ resp' = LoginRedirect("task_delete", "POST", user, pk, Row(tasks, pk))
            /\ UNCHANGED <<tasks, req>>
       ELSE IF pk \notin DOMAIN tasks
       THEN /\ resp' = Response("task_delete", "POST", user, pk, 404, "",
                                NoLocation, Idle, {})
            /\ UNCHANGED <<tasks, req>>
       ELSE /\ tasks' = [p \in DOMAIN tasks \ {pk} |-> tasks[p]]
            /\ resp' = Response("task_delete", "POST", user, pk, 302, "",
                                Reverse("core:task-list", tasks[pk].project), Idle,
                                Row(tasks', pk))
            /\ UNCHANGED req
    /\ UNCHANGED <<workers, today, listing, wresp>>

(* ------------------------- TaskListView.get_queryset -------------------- *)
FilterFlags == {"past_dl", "urgent", "done"}

RECURSIVE IntToStr(_)
\* str(n): the decimal digits of n
IntToStr(n) ==
    LET d == <<"0", "1", "2", "3", "4", "5", "6", "7", "8", "9">>[(n % 10) + 1]
    IN IF n < 10 THEN <<d>> ELSE Append(IntToStr(n \div 10), d)

DigitValue(c) ==
    CHOOSE v \in 0..9 : <<"0", "1", "2", "3", "4", "5", "6", "7", "8", "9">>[v + 1] = c

RECURSIVE StrToInt(_)
\* int(s) of a digit string, as the project_id lookup coerces it
StrToInt(s) ==
    IF Len(s) = 1 THEN DigitValue(s[1])
    ELSE 10 * StrToInt(SubSeq(s, 1, Len(s) - 1)) + DigitValue(s[Len(s)])

\* request.build_absolute_uri() of the task list of a project, as pieces of
\* text: each "/" is a piece of its own, and the query string comes last
BuildAbsoluteUri(project, filters) ==
    <<"http:", "/", "/", "testserver", "/", "projects", "/">>
        \o IntToStr(project) \o <<"/", "tasks", "/">>
        \o (IF filters = {} THEN <<>> ELSE <<"?filters">>)

RECURSIVE Split(_, _)
\* s.split(sep): the runs between separators, empty runs included
Split(s, sep) ==
    IF \A i \in 1..Len(s) : s[i] # sep THEN <<s>>
    ELSE LET i == CHOOSE k \in 1..Len(s) :
                      s[k] = sep /\ \A m \in 1..(k - 1) : s[m] # sep
         IN <<SubSeq(s, 1, i - 1)>> \o Split(SubSeq(s, i + 1, Len(s)), sep)

\* the index of the project id among the pieces of the URL
ProjectIdIndex == 4

\* self.request.build_absolute_uri().split("/")[4]
ProjectIdOfUri(uri) == Split(uri, "/")[ProjectIdIndex + 1]

\* the list without the project filter
FilterProjectAll(store, qs, project_id) == qs

FilterProject(store, qs, project_id) == {t \in qs : store[t].project = project_id}

\* deadline__lte: a deadline of today counted as past
FilterDeadlineLte(store, qs, now) == {t \in qs : store[t].deadline <= now}

\* deadline__lt=date.today()
FilterPastDeadline(store, qs, now) == {t \in qs : store[t].deadline < now}

FilterUrgent(store, qs) == {t \in qs : store[t].priority = "Urgent"}

\* the default list left unfiltered, only the done list filtered
FilterCompletedOnlyDone(store, qs, flag) ==
    IF flag THEN {t \in qs : store[t].is_completed} ELSE qs

FilterCompleted(store, qs, flag) == {t \in qs : store[t].is_completed = flag}

TaskListQueryset(store, uri, filters, now) ==
    LET project_id == StrToInt(ProjectIdOfUri(uri))
        q0 == FilterProject(store, DOMAIN store, project_id)
        q1 == IF "past_dl" \in filters THEN FilterPastDeadline(store, q0, now) ELSE q0
        q2 == IF "urgent" \in filters THEN FilterUrgent(store, q1) ELSE q1
    IN IF "done" \in filters
       THEN FilterCompleted(store, q2, TRUE)
       ELSE FilterCompleted(store, q2, FALSE)

NoListing ==
    [op |-> "none", user |-> Anonymous, project |-> 0, filters |-> {},
     status |-> 0, object_list |-> {}]

TaskList(user, project, filters) ==
    /\ listing' =
         IF ~ IsAuthenticated(user)
         THEN [NoListing EXCEPT !.op = "task_list", !.status = 302]
         ELSE [op |-> "task_list", user |-> user, project |-> project,
               filters |-> filters, status |-> 200,
               object_list |->
                   TaskListQueryset(tasks, BuildAbsoluteUri(project, filters),
                                    filters, today)]
    /\ UNCHANGED <<tasks, workers, today, req, resp, wresp>>

(* ------------------ WorkerListView / WorkerUpdateView ------------------- *)
InitWorkers ==
    [w \in WorkerIds |->
        [project |-> WorkerProject(w),
         first_name |-> <<Ana, Juliana, Bob>>[((w - 1) % 3) + 1],
         last_name |-> <<Smith, Ruiz, Lee>>[((w - 1) % 3) + 1]]]

UpperChar(c) ==
    IF \E i \in 1..Len(LowerChars) : LowerChars[i] = c
    THEN UpperChars[CHOOSE i \in 1..Len(LowerChars) : LowerChars[i] = c]
    ELSE c

Upper(s) == [i \in 1..Len(s) |-> UpperChar(s[i])]

\* field__contains: the match with the case kept
ContainsExact(field, name) ==
    \E i \in 0..(Len(field) - Len(name)) : SubSeq(field, i + 1, i + Len(name)) = name

\* field__icontains=name: UPPER(field) LIKE '%' || UPPER(name) || '%'
IContains(field, name) ==
    \E i \in 0..(Len(field) - Len(name)) :
        SubSeq(Upper(field), i + 1, i + Len(name)) = Upper(name)

\* request.GET.get("name"): None when the parameter is absent
NoName == [present |-> FALSE, value |-> <<>>]

NameParam(s) == [present |-> TRUE, value |-> s]

\* `if name:` is false for None and for the empty string
Truthy(name) == name.present /\ name.value # <<>>

WorkerListQueryset(ws, name) ==
    IF Truthy(name)
    THEN {w \in DOMAIN ws :
            \/ IContains(ws[w].first_name, name.value)
            \/ IContains(ws[w].last_name, name.value)}
    ELSE DOMAIN ws

\* the queryset of all workers
WorkerUpdateQuerysetAll(ws, user) == DOMAIN ws

\* get_user_model().objects.filter(pk=self.request.user.pk)
WorkerUpdateQueryset(ws, user) ==
    {w \in DOMAIN ws : IsAuthenticated(user) /\ w = user}

WorkerResponse(op, method, user, pk, name, status, location, object_list, changed) ==
    [op |-> op, method |-> method, user |-> user, pk |-> pk, name |-> name,
     status |-> status, location |-> location, object_list |-> object_list,
     changed |-> changed]

NoWorkerResponse ==
    WorkerResponse("none", "GET", Anonymous, 0, NoName, 0, NoLocation, {}, {})

Queries ==
    {NoName, NameParam(<<>>), NameParam(<<"a", "n", "a">>), NameParam(<<"A", "N", "A">>),
     NameParam(<<"n", "A">>), NameParam(<<"l", "E">>), NameParam(Bob)}

WorkerList(user, name) ==
    /\ wresp' =
         IF ~ IsAuthenticated(user)
         THEN WorkerResponse("worker_list", "GET", user, 0, name, 302,
                             Reverse("login", 0), {}, {})
         ELSE WorkerResponse("worker_list", "GET", user, 0, name, 200, NoLocation,
                             WorkerListQueryset(workers, name), {})
    /\ UNCHANGED <<tasks, workers, today, req, resp, listing>>

\* what a submitted WorkerUpdateForm carries
WorkerFormInputs ==
    {[first_name |-> Dan, last_name |-> Ash],
     [first_name |-> Bob, last_name |-> Havana],
     [first_name |-> ANNA, last_name |-> Lee]}

\* form.save() of a valid WorkerUpdateForm bound to the loaded worker
WorkerFormSave(obj, data) ==
    [obj EXCEPT !.first_name = data.first_name, !.last_name = data.last_name]

Changed(before, after) == {w \in DOMAIN before : before[w] # after[w]}

\* get_object over get_queryset, then the form page
WorkerUpdateGet(user, pk) ==
    /\ wresp' =
         IF pk \notin WorkerUpdateQueryset(workers, user)
         THEN WorkerResponse("worker_update", "GET", user, pk, NoName, 404,
                             NoLocation, {}, {})
         ELSE WorkerResponse("worker_update", "GET", user, pk, NoName, 200,
                             NoLocation, {pk}, {})
    /\ UNCHANGED <<tasks, workers, today, req, resp, listing>>

\* get_object over get_queryset, the form, form.save(), get_success_url
WorkerUpdatePost(user, pk, data, valid) ==
    /\ IF pk \notin WorkerUpdateQueryset(workers, user)
       THEN /\ wresp' = WorkerResponse("worker_update", "POST", user, pk, NoName,
                                       404, NoLocation, {}, {})
            /\ UNCHANGED workers
       ELSE IF ~ valid
       THEN /\ wresp' = WorkerResponse("worker_update", "POST", user, pk, NoName,
                                       200, NoLocation, {pk}, {})
            /\ UNCHANGED workers
       ELSE /\ workers' = [workers EXCEPT ![pk] = WorkerFormSave(workers[pk], data)]
            /\ wresp' = WorkerResponse("worker_update", "POST", user, pk, NoName,
                                       302, Reverse("core:worker-detail", user),
                                       {pk}, Changed(workers, workers'))
    /\ UNCHANGED <<tasks, today, req, resp, listing>>

(* --------------------------- specifications ----------------------------- *)
Init ==
    /\ tasks = InitTasks
    /\ workers = InitWorkers
    /\ today = MaxDay
    /\ req = [h \in Handlers |-> Idle]
    /\ resp = NoResponse
    /\ listing = NoListing
    /\ wresp = NoWorkerResponse

\* the edits that run beside the toggles: a form sent back with another set
\* of assignees and the other fields as they are
ReassignInputs(pk) ==
    {d \in FormData :
        /\ d.priority = tasks[pk].priority
        /\ d.deadline = tasks[pk].deadline
        /\ d.assignees \in {{}, {1, 2}}}

\* toggle requests on two threads, beside edits and deletions of the same rows
Next ==
    \/ \E h \in Handlers, user \in Requesters, pk \in RequestPks : ToggleGet(h, user, pk)
    \/ \E h \in Handlers : ToggleCheck(h)
    \/ \E h \in Handlers : ToggleSave(h)
    \/ \E pk \in DOMAIN tasks : \E data \in ReassignInputs(pk) :
          TaskUpdatePost(1, pk, data, TRUE)
    \/ \E pk \in DOMAIN tasks : TaskDeletePost(1, pk)

Spec == Init /\ [][Next]_vars

\* update and delete requests, by every requester and both methods
NextEdit ==
    \/ \E user \in Requesters, pk \in RequestPks : TaskDeleteGet(user, pk)
    \/ \E user \in Requesters, pk \in RequestPks : TaskDeletePost(user, pk)
    \/ \E user \in Requesters, pk \in RequestPks : TaskUpdateGet(user, pk)
    \/ \E user \in Requesters, pk \in RequestPks, data \in FormInputs, valid \in BOOLEAN :
          TaskUpdatePost(user, pk, data, valid)

SpecEdit == Init /\ [][NextEdit]_vars

\* the stores the task list is asked about
ListTasks ==
    [project : ProjectIds, is_completed : BOOLEAN, priority : {"Urgent", "Low"},
     deadline : {0, MaxDay}, assignees : {{}}]

InitList ==
    /\ tasks \in [1..NumListed -> ListTasks]
    /\ workers = InitWorkers
    /\ today \in Days
    /\ req = [h \in Handlers |-> Idle]
    /\ resp = NoResponse
    /\ listing = NoListing
    /\ wresp = NoWorkerResponse

NextList ==
    \/ \E project \in ProjectIds \cup {12}, filters \in SUBSET FilterFlags :
          TaskList(1, project, filters)
    \/ TaskList(Anonymous, 1, {})

SpecList == InitList /\ [][NextList]_vars

NextWorker ==
    \/ \E user \in {Anonymous, 1}, name \in Queries : WorkerList(user, name)
    \/ \E user \in Users, pk \in WorkerIds : WorkerUpdateGet(user, pk)
    \/ \E user \in Users, pk \in WorkerIds, data \in WorkerFormInputs, valid \in BOOLEAN :
          WorkerUpdatePost(user, pk, data, valid)

SpecWorker == Init /\ [][NextWorker]_vars

(* ------------------------------- claims --------------------------------- *)
\* C1: an update or delete request for a task, by GET or by POST, from a worker
\* of another project than the task's is answered 405 "Unauthorized" and leaves
\* the store as it was.
C1_OtherProjectEditRejected ==
    [][(/\ resp'.op \in {"task_update", "task_delete"}
        /\ IsAuthenticated(resp'.user)
        /\ resp'.pk \in DOMAIN tasks
        /\ tasks[resp'.pk].project # UserProject(resp'.user))
       => (/\ resp'.status = 405
           /\ resp'.body = "Unauthorized"
           /\ tasks' = tasks)]_vars

\* C2: the membership test of a toggle request whose requester (a worker or
\* nobody logged in) is not among the task's assignees at that moment ends the
\* request with 405 "Unauthorized", and nothing is written: the flag stays.
C2_NonAssigneeToggleRejected ==
    [][\A h \in Handlers :
        (/\ req[h].pc = "check"
         /\ req'[h] # req[h]
         /\ req[h].user \notin AssigneesAll(tasks, req[h].pk))
        => (/\ req'[h].pc = "idle"
            /\ resp'.op = "toggle"
            /\ resp'.user = req[h].user
            /\ resp'.pk = req[h].pk
            /\ resp'.status = 405
            /\ resp'.body = "Unauthorized"
            /\ resp'.location = NoLocation
            /\ resp'.after = resp'.before
            /\ tasks' = tasks)]_vars

C2_Witness ==
    /\ resp.op = "toggle"
    /\ resp.status = 405
    /\ resp.user = Anonymous
    /\ resp.pk \in DOMAIN tasks
    /\ resp.read # {}
    /\ Flags(Row(tasks, resp.pk)) = resp.read

\* C3: a toggle request by one of the task's assignees goes on to write, and
\* when the row is still as the request loaded it (nobody wrote in between) the
\* write flips the flag of that row once, changes nothing else, and the answer
\* is a redirect to the task's detail page.
C3_AssigneeToggleFlipsOnce ==
    [][\A h \in Handlers :
        /\ (/\ req[h].pc = "check"
            /\ req'[h] # req[h]
            /\ req[h].user \in AssigneesAll(tasks, req[h].pk))
           => (req'[h].pc = "save" /\ tasks' = tasks)
        /\ (/\ req[h].pc = "save"
            /\ req'[h] # req[h]
            /\ Row(tasks, req[h].pk) = req[h].read)
           => (/\ DOMAIN tasks' = DOMAIN tasks
               /\ \A p \in DOMAIN tasks :
                    tasks'[p] =
                      IF p = req[h].pk
                      THEN [tasks[p] EXCEPT !.is_completed = ~ tasks[p].is_completed]
                      ELSE tasks[p]
               /\ resp'.op = "toggle"
               /\ resp'.status = 302
               /\ resp'.location = Reverse("core:task-detail", req[h].pk))]_vars

C3_Witness ==
    /\ resp.op = "toggle"
    /\ resp.status = 302
    /\ resp.location = Reverse("core:task-detail", resp.pk)
    /\ resp.read # {}
    /\ resp.before = resp.read
    /\ resp.after = {~ f : f \in resp.read}
    /\ Flags(Row(tasks, resp.pk)) = resp.after

\* C9: a toggle that writes after another toggle of the same task has flipped
\* the flag it had read (both read the same value before either wrote) leaves
\* the flag as it found it, the negation of the value both read: of the two
\* flips one is lost.
C9_ConcurrentToggleLosesFlip ==
    (/\ resp.op = "toggle"
     /\ resp.status = 302
     /\ resp.before # {}
     /\ resp.before # resp.read)
    => (/\ resp.after = resp.before
        /\ resp.after = {~ f : f \in resp.read})

C9_Witness ==
    /\ resp.op = "toggle"
    /\ resp.status = 302
    /\ resp.before # {}
    /\ resp.before # resp.read
    /\ resp.after = resp.before
    /\ Flags(Row(tasks, resp.pk)) = {~ f : f \in resp.read}
    /\ \A h \in Handlers : req[h].pc = "idle"

\* C10: a toggle request for a primary key without a row gets no further than
\* the lookup: it is answered 500 (the lookup error), not 405, not a redirect,
\* not 404, whoever asks, and the store stays as it was.
C10_MissingTaskToggleFails ==
    [][/\ \A h \in Handlers :
            (req[h].pc = "idle" /\ req'[h].pc # "idle") => req'[h].pk \in DOMAIN tasks
       /\ (resp'.op = "toggle" /\ req' = req)
          => (/\ resp'.pk \notin DOMAIN tasks
              /\ resp'.status = 500
              /\ resp'.location = NoLocation
              /\ tasks' = tasks)]_vars

C10_Witness ==
    /\ resp.op = "toggle"
    /\ resp.status = 500
    /\ resp.pk \notin DOMAIN tasks
    /\ resp.user = Anonymous
    /\ DOMAIN tasks # {}

\* the tasks of project p that pass the flags past_dl and urgent of a request
PassOtherFlags(p, filters) ==
    {t \in DOMAIN tasks :
        /\ tasks[t].project = p
        /\ ("past_dl" \in filters => tasks[t].deadline < today)
        /\ ("urgent" \in filters => tasks[t].priority = "Urgent")}

\* C4: whatever the flags and the store, the list of a project holds only
\* tasks of that project.
C4_ListOnlyOwnProject ==
    listing.status = 200
    => \A t \in listing.object_list :
          t \in DOMAIN tasks /\ tasks[t].project = listing.project

C4_Witness ==
    /\ listing.status = 200
    /\ listing.object_list # {}
    /\ \E t \in DOMAIN tasks :
          /\ tasks[t].project # listing.project
          /\ tasks[t].is_completed = ("done" \in listing.filters)
          /\ t \in PassOtherFlags(tasks[t].project, listing.filters)

\* the list asked with the done flag switched and everything else the same
CounterpartList ==
    LET f == IF "done" \in listing.filters
             THEN listing.filters \ {"done"}
             ELSE listing.filters \cup {"done"}
    IN TaskListQueryset(tasks, BuildAbsoluteUri(listing.project, f), f, today)

\* C5: for a project and a setting of past_dl and urgent, the list with done
\* and the list without it share no task and together are the tasks of the
\* project that pass the other flags.
C5_DoneListsPartition ==
    listing.status = 200
    => (/\ listing.object_list \cap CounterpartList = {}
        /\ listing.object_list \cup CounterpartList
             = PassOtherFlags(listing.project, listing.filters))

C5_Witness ==
    /\ listing.status = 200
    /\ listing.filters = {}
    /\ listing.object_list # {}
    /\ CounterpartList # {}

\* project A holds T1 (not done, Urgent, due yesterday) and T2 (done), no other
ScenarioA ==
    /\ {1, 2} \subseteq DOMAIN tasks
    /\ tasks[1].project = listing.project
    /\ tasks[2].project = listing.project
    /\ \A t \in DOMAIN tasks \ {1, 2} : tasks[t].project # listing.project
    /\ ~ tasks[1].is_completed
    /\ tasks[1].priority = "Urgent"
    /\ tasks[1].deadline = today - 1
    /\ tasks[2].is_completed

\* C6: the list of a project is the set of its tasks that meet every flag asked
\* for: past_dl, a deadline strictly before today; urgent, priority "Urgent";
\* and completed if done is asked, not completed otherwise. So in the scenario
\* [past_dl, urgent] and no flag list T1, and [done] lists T2.
C6_ListIsConjunctionOfFlags ==
    listing.status = 200
    => (/\ listing.object_list =
              {t \in PassOtherFlags(listing.project, listing.filters) :
                  tasks[t].is_completed = ("done" \in listing.filters)}
        /\ (ScenarioA /\ listing.filters = {"past_dl", "urgent"})
              => listing.object_list = {1}
        /\ (ScenarioA /\ listing.filters = {"done"}) => listing.object_list = {2}
        /\ (ScenarioA /\ listing.filters = {}) => listing.object_list = {1})

C6_Witness ==
    /\ listing.status = 200
    /\ ScenarioA
    /\ listing.filters = {"past_dl", "urgent"}
    /\ listing.object_list = {1}
    /\ tasks[2].priority = "Urgent"
    /\ tasks[2].deadline < today

\* C7: a worker update request changes at most the row of the worker who is
\* logged in and sends it; one addressed to another worker's key, or sent by
\* nobody logged in, finds no object (404) and changes no row; a successful
\* one redirects to the requester's own detail page.
C7_WorkerUpdateSelfOnly ==
    [][wresp'.op = "worker_update"
       => (/\ (wresp'.user # wresp'.pk \/ ~ IsAuthenticated(wresp'.user))
                => (wresp'.status = 404 /\ workers' = workers)
           /\ \A w \in WorkerIds :
                workers'[w] # workers[w]
                => (w = wresp'.user /\ IsAuthenticated(wresp'.user))
           /\ wresp'.status = 302
                => wresp'.location = Reverse("core:worker-detail", wresp'.user))]_vars

C7_Witness ==
    /\ wresp.op = "worker_update"
    /\ wresp.method = "POST"
    /\ wresp.status = 404
    /\ IsAuthenticated(wresp.user)
    /\ wresp.user # wresp.pk
    /\ \E w \in WorkerIds : workers[w] # InitWorkers[w]

\* two letters that are the same up to case
SameLetter(a, b) ==
    \/ a = b
    \/ \E k \in 1..Len(LowerChars) : {a, b} = {LowerChars[k], UpperChars[k]}

\* s occurs in name, letter for letter up to case
OccursIgnoringCase(name, s) ==
    \E i \in 1..Len(name) :
        /\ i + Len(s) - 1 <= Len(name)
        /\ \A j \in 1..Len(s) : SameLetter(name[i + j - 1], s[j])

\* C8: the worker list asked with a non-empty name holds exactly the workers
\* whose first name or last name has it as a substring, case ignored; asked
\* without a name or with an empty one it holds every worker.
C8_WorkerSearch ==
    [][(wresp'.op = "worker_list" /\ wresp'.status = 200)
       => wresp'.object_list =
            IF wresp'.name.present /\ wresp'.name.value # <<>>
            THEN {w \in WorkerIds :
                    \/ OccursIgnoringCase(workers[w].first_name, wresp'.name.value)
                    \/ OccursIgnoringCase(workers[w].last_name, wresp'.name.value)}
            ELSE WorkerIds]_vars

C8_Witness ==
    /\ wresp.op = "worker_list"
    /\ wresp.status = 200
    /\ wresp.name = NameParam(<<"a", "n", "a">>)
    /\ \E a, j, b \in WorkerIds :
          /\ workers[a].first_name = Ana /\ workers[a].last_name = Smith
          /\ workers[j].first_name = Juliana /\ workers[j].last_name = Ruiz
          /\ workers[b].first_name = Bob /\ workers[b].last_name = Lee
          /\ a \in wresp.object_list
          /\ j \in wresp.object_list
          /\ b \notin wresp.object_list

====
